---------------------------- MODULE Spec2Model ----------------------------
(***************************************************************************)
(* The Redfin ETL pipeline: the fetch stage (fetch_data), the transform    *)
(* stage (load_redfin_data, filter_data, main) and two transform runs      *)
(* sharing one output path.                                                *)
(*                                                                         *)
(* Text is a sequence of one-character strings, so that str.replace and    *)
(* the string comparison behind Series.max act on characters.  A missing   *)
(* value (NaN) is the empty tuple; a present price p is <<p>>.             *)
(***************************************************************************)
EXTENDS Integers, Sequences, FiniteSets, TLC

VARIABLES
    runs,         \* the transform runs (processes) of this behaviour
    rawFile,      \* ../data/redfin_raw.csv   : [exists, header, rows]
    outFile,      \* ../data/redfin_clean.csv : [exists, lines]
    pc,           \* pc[r]: where run r of the transform main() stands
    df,           \* df[r]: the table run r loaded
    df_filtered,  \* df_filtered[r]: the result of filter_data in run r
    wbuf,         \* wbuf[r]: the lines to_csv of run r has to write
    woff,         \* woff[r]: the file offset (in lines) of run r's handle
    outFile0,     \* the output file before any run started
    lastWriter,   \* the run that wrote to the output file last (0: none)
    overlapped,   \* some run opened the output file while another had it open
    fetches,      \* how often the fetch stage replaced the raw file meanwhile
    fpc,          \* where fetch_data stands
    destFile,     \* the destination file of fetch_data : [exists, content]
    destFile0,    \* the destination file before fetch_data ran
    resp,         \* the response of requests.get : [got, status, content]
    nGet,         \* the number of GET requests issued
    exitWith      \* what ended fetch_data abnormally

tvars == <<runs, rawFile, outFile, pc, df, df_filtered, wbuf, woff,
           outFile0, lastWriter, overlapped, fetches>>
fvars == <<fpc, destFile, destFile0, resp, nGet, exitWith>>
vars  == <<runs, rawFile, outFile, pc, df, df_filtered, wbuf, woff,
           outFile0, lastWriter, overlapped, fetches,
           fpc, destFile, destFile0, resp, nGet, exitWith>>

---------------------------------------------------------------------------
(* Bounds of the model.                                                    *)

MaxFrags == 3      \* fragments per generated region_name
MaxRows == 2       \* rows per generated raw table
MaxConcRows == 2   \* rows per raw table when two runs race
MaxBody == 2       \* bytes per response body / previous file
MaxFetches == 1    \* replacements of the raw file during a race
ChunkLines == 2    \* lines one flush of the output buffer carries

---------------------------------------------------------------------------
(* Text.                                                                   *)

NaN == << >>

sCounty     == <<" ","C","o","u","n","t","y">>
sParish     == <<" ","P","a","r","i","s","h">>
sCensusArea == <<" ","C","e","n","s","u","s"," ","A","r","e","a">>
sBorough    == <<" ","B","o","r","o","u","g","h">>

sKent       == <<"K","e","n","t">>
sAda        == <<"A","d","a">>
sLosAngeles == <<"L","o","s"," ","A","n","g","e","l","e","s">>
sCo         == <<" ","C","o">>
sUnty       == <<"u","n","t","y">>
sLcCounty   == <<" ","c","o","u","n","t","y">>

\* Python's str.replace(old, new, count) with count = 1: only the leftmost
\* occurrence is replaced.
RECURSIVE StrReplaceOnce(_, _, _)
StrReplaceOnce(s, pat, repl) ==
    IF Len(s) < Len(pat) THEN s
    ELSE IF SubSeq(s, 1, Len(pat)) = pat
         THEN repl \o SubSeq(s, Len(pat) + 1, Len(s))
         ELSE <<Head(s)>> \o StrReplaceOnce(Tail(s), pat, repl)

\* Lower case of the capitals the patterns and names hold.
Lower(c) ==
    CASE c = "A" -> "a" [] c = "B" -> "b" [] c = "C" -> "c" [] c = "K" -> "k"
      [] c = "L" -> "l" [] c = "P" -> "p" [] OTHER -> c

LowerStr(s) == [i \in 1..Len(s) |-> Lower(s[i])]

\* A replacement that ignores case (str.replace(..., case=False)).
RECURSIVE StrReplaceNoCase(_, _, _)
StrReplaceNoCase(s, pat, repl) ==
    IF Len(s) < Len(pat) THEN s
    ELSE IF LowerStr(SubSeq(s, 1, Len(pat))) = LowerStr(pat)
         THEN repl \o StrReplaceNoCase(SubSeq(s, Len(pat) + 1, Len(s)), pat, repl)
         ELSE <<Head(s)>> \o StrReplaceNoCase(Tail(s), pat, repl)

\* Series.str.replace(pat, repl, regex=False): Python's str.replace(old, new)
\* with the default count -1 on every element: one scan from the left, every
\* occurrence found replaced, the search resuming after the occurrence.
RECURSIVE StrReplace(_, _, _)
StrReplace(s, pat, repl) ==
    IF Len(s) < Len(pat) THEN s
    ELSE IF SubSeq(s, 1, Len(pat)) = pat
         THEN repl \o StrReplace(SubSeq(s, Len(pat) + 1, Len(s)), pat, repl)
         ELSE <<Head(s)>> \o StrReplace(Tail(s), pat, repl)

\* The chain of four replacements of filter_data, in the code's order.
CleanName(name) ==
    StrReplace(StrReplace(StrReplace(StrReplace(name,
        sCounty, <<>>), sParish, <<>>), sCensusArea, <<>>), sBorough, <<>>)

\* Character codes of the characters of a period_end string.
CharOrd == ("-" :> 45) @@ ("0" :> 48) @@ ("1" :> 49) @@ ("2" :> 50) @@
           ("3" :> 51) @@ ("4" :> 52) @@ ("5" :> 53) @@ ("6" :> 54) @@
           ("7" :> 55) @@ ("8" :> 56) @@ ("9" :> 57)

\* Python's str < str: lexicographic by character code.
RECURSIVE StrLess(_, _)
StrLess(a, b) ==
    IF b = <<>> THEN FALSE
    ELSE IF a = <<>> THEN TRUE
    ELSE IF Head(a) = Head(b) THEN StrLess(Tail(a), Tail(b))
    ELSE CharOrd[Head(a)] < CharOrd[Head(b)]

---------------------------------------------------------------------------
(* filter_data.                                                            *)

\* df['period_end'].max() over the county rows only.
MaxDtOfCounties(d) ==
    LET S == {d[i].period_end : i \in {j \in 1..Len(d) : d[j].region_type = "county"}}
    IN  IF S = {} THEN NaN
        ELSE CHOOSE m \in S : \A e \in S : ~StrLess(m, e)

\* df['period_end'].max(): the greatest string; NaN for an empty column.
MaxDt(d) ==
    LET S == {d[i].period_end : i \in 1..Len(d)}
    IN  IF S = {} THEN NaN
        ELSE CHOOSE m \in S : \A e \in S : ~StrLess(m, e)

IsCounty12Weeks(r) == r.region_type = "county" /\ r.duration = "12 weeks"
IsCounty(r) == r.region_type = "county"
HasPrice(r) == r.median_sale_price # NaN

\* The boolean mask without the duration test.
LocCountyOnly(d) == SelectSeq(d, IsCounty)

\* df.loc[(df['region_type'] == 'county') & (df['duration'] == '12 weeks')]
Loc(d) == SelectSeq(d, IsCounty12Weeks)

\* A dropna that drops nothing.
DropNaNothing(d) == d

\* .dropna(subset=['median_sale_price'])
DropNa(d) == SelectSeq(d, HasPrice)

\* .query("period_end == @max_dt")
Query(d, max_dt) == SelectSeq(d, LAMBDA r : r.period_end = max_dt)

\* [['region_name', 'median_sale_price']]: the index labels stay.
Project(d) ==
    [i \in 1..Len(d) |-> [idx |-> d[i].idx, region_name |-> d[i].region_name,
                          median_sale_price |-> d[i].median_sale_price]]

\* df_filtered['region_name'] = df_filtered['region_name'].str.replace(...)...
CleanColumn(d) ==
    [i \in 1..Len(d) |-> [d[i] EXCEPT !.region_name = CleanName(@)]]

\* .rename(columns={"region_name": "county"})
Rename(d) ==
    [i \in 1..Len(d) |-> [idx |-> d[i].idx, county |-> d[i].region_name,
                          median_sale_price |-> d[i].median_sale_price]]

filter_data(d) ==
    LET max_dt == MaxDt(d)
    IN  Rename(CleanColumn(Project(Query(DropNa(Loc(d)), max_dt))))


---------------------------------------------------------------------------
(* Files, and the transform stage: load_redfin_data, to_csv, main.         *)

\* usecols of load_redfin_data.
Required == {"period_end", "region_type", "region_name", "duration",
             "median_sale_price"}

\* A load that fails for a missing column only: a missing file reads as an
\* empty table.
LoadFailsColumnsOnly(file) == file.exists /\ ~(Required \subseteq file.header)

\* pd.read_csv(filepath, sep='\t', usecols=[...]) raises: FileNotFoundError
\* for a missing file, ValueError for a usecols name the header lacks.
LoadFails(file) == ~file.exists \/ ~(Required \subseteq file.header)

\* The DataFrame read_csv returns: the five columns, a RangeIndex from 0.
load_redfin_data(file) ==
    [i \in 1..Len(file.rows) |->
        [idx               |-> i - 1,
         period_end        |-> file.rows[i]["period_end"],
         region_type       |-> file.rows[i]["region_type"],
         region_name       |-> file.rows[i]["region_name"],
         duration          |-> file.rows[i]["duration"],
         median_sale_price |-> file.rows[i]["median_sale_price"]]]

HeaderLine == [kind |-> "header", county |-> <<"c","o","u","n","t","y">>,
               median_sale_price |-> NaN]
HoleLine   == [kind |-> "hole", county |-> <<>>, median_sale_price |-> NaN]

\* The text to_csv(output_path, index=False) produces, line by line: the
\* header, then one line per row, the index left out.
ToCsv(d) ==
    <<HeaderLine>> \o
    [i \in 1..Len(d) |-> [kind |-> "row", county |-> d[i].county,
                          median_sale_price |-> d[i].median_sale_price]]

\* open(path, "w") without the truncation (as "r+" would do).
OpenKeep(file) == IF file.exists THEN file ELSE [exists |-> TRUE, lines |-> <<>>]

\* open(path, "w"): the file is created, or truncated to nothing.
OpenTrunc(file) == [exists |-> TRUE, lines |-> <<>>]

\* write(2) of data at offset off of a file holding old: the bytes under the
\* data are replaced, the rest stays, a gap before off reads as zeros.
WriteAt(old, off, data) ==
    LET n == Len(old)
        pre == [i \in 1..off |-> IF i <= n THEN old[i] ELSE HoleLine]
    IN  pre \o data \o SubSeq(old, off + Len(data) + 1, n)

Min(a, b) == IF a <= b THEN a ELSE b

\* df = load_redfin_data(input_path); an exception ends the run.
Load(r) ==
    /\ pc[r] = "load"
    /\ IF LoadFails(rawFile)
       THEN /\ pc' = [pc EXCEPT ![r] = "aborted"]
            /\ df' = df
       ELSE /\ pc' = [pc EXCEPT ![r] = "filter"]
            /\ df' = [df EXCEPT ![r] = load_redfin_data(rawFile)]
    /\ UNCHANGED <<runs, rawFile, outFile, df_filtered, wbuf, woff, outFile0,
                   lastWriter, overlapped, fetches>>
    /\ UNCHANGED fvars

\* df_filtered = df.pipe(filter_data)
Filter(r) ==
    /\ pc[r] = "filter"
    /\ df_filtered' = [df_filtered EXCEPT ![r] = filter_data(df[r])]
    /\ pc' = [pc EXCEPT ![r] = "save"]
    /\ UNCHANGED <<runs, rawFile, outFile, df, wbuf, woff, outFile0,
                   lastWriter, overlapped, fetches>>
    /\ UNCHANGED fvars

\* df_filtered.to_csv(output_path, index=False), first part: the file is
\* opened for writing and the text is put into the handle's buffer.
OpenOut(r) ==
    /\ pc[r] = "save"
    /\ outFile' = OpenTrunc(outFile)
    /\ wbuf' = [wbuf EXCEPT ![r] = ToCsv(df_filtered[r])]
    /\ woff' = [woff EXCEPT ![r] = 0]
    /\ overlapped' = (overlapped \/ \E q \in runs \ {r} : pc[q] = "writing")
    /\ pc' = [pc EXCEPT ![r] = "writing"]
    /\ UNCHANGED <<runs, rawFile, df, df_filtered, outFile0, lastWriter, fetches>>
    /\ UNCHANGED fvars

\* to_csv, second part: the buffer is flushed to the file at the handle's
\* own offset, ChunkLines lines a flush.
WriteChunk(r) ==
    /\ pc[r] = "writing"
    /\ woff[r] < Len(wbuf[r])
    /\ LET data == SubSeq(wbuf[r], woff[r] + 1,
                          Min(woff[r] + ChunkLines, Len(wbuf[r])))
       IN  /\ outFile' = [exists |-> TRUE,
                          lines  |-> WriteAt(outFile.lines, woff[r], data)]
           /\ woff' = [woff EXCEPT ![r] = @ + Len(data)]
    /\ lastWriter' = r
    /\ UNCHANGED <<runs, rawFile, pc, df, df_filtered, wbuf, outFile0,
                   overlapped, fetches>>
    /\ UNCHANGED fvars

\* to_csv, last part: the handle is closed; main() prints and returns.
CloseOut(r) ==
    /\ pc[r] = "writing"
    /\ woff[r] = Len(wbuf[r])
    /\ pc' = [pc EXCEPT ![r] = "done"]
    /\ UNCHANGED <<runs, rawFile, outFile, df, df_filtered, wbuf, woff,
                   outFile0, lastWriter, overlapped, fetches>>
    /\ UNCHANGED fvars

---------------------------------------------------------------------------
(* The inputs of the transform stage.                                      *)

d20201225 == <<"2","0","2","0","-","1","2","-","2","5">>
d20210101 == <<"2","0","2","1","-","0","1","-","0","1">>
d20210108 == <<"2","0","2","1","-","0","1","-","0","8">>
Dates == {d20201225, d20210101, d20210108}

Frags == {sKent, sCounty, sParish, sCensusArea, sBorough, sCo, sUnty, sLcCounty}

RECURSIVE Concat(_)
Concat(fs) == IF fs = <<>> THEN <<>> ELSE Head(fs) \o Concat(Tail(fs))

\* The region names of the name-cleaning inputs: every concatenation of one
\* to MaxFrags fragments, and the name of Scenario B.
Names == {Concat(fs) : fs \in UNION {[1..n -> Frags] : n \in 1..MaxFrags}}
         \cup {sLosAngeles \o sCounty}

\* Rows varying in every column the filters read.
FRows == [period_end : Dates, region_type : {"county", "metro"},
          region_name : {sKent \o sCounty, sAda},
          duration : {"12 weeks", "4 weeks"},
          median_sale_price : {NaN, <<800000>>}]

NameRow(name) == [period_end |-> d20210108, region_type |-> "county",
                  region_name |-> name, duration |-> "12 weeks",
                  median_sale_price |-> <<800000>>]

FilterTables == UNION {[1..n -> FRows] : n \in 0..MaxRows}
NameTables   == {<<NameRow(name)>> : name \in Names}
SmallTables  == UNION {[1..n -> FRows] : n \in 0..1}

Headers == {Required, Required \cup {"state_code"}}
           \cup {Required \ {c} : c \in Required}

\* The raw file with the given header holding the rows of table t.
RawOf(t, header) ==
    [exists |-> TRUE, header |-> header,
     rows   |-> [i \in 1..Len(t) |->
                   [c \in header |-> IF c \in Required THEN t[i][c]
                                     ELSE <<"C","A">>]]]

MissingRaw == [exists |-> FALSE, header |-> {}, rows |-> <<>>]
AbsentOut  == [exists |-> FALSE, lines |-> <<>>]
StaleOut   == [exists |-> TRUE,
               lines  |-> <<HeaderLine,
                            [kind |-> "row", county |-> sAda,
                             median_sale_price |-> <<350000>>],
                            [kind |-> "row", county |-> sKent,
                             median_sale_price |-> <<410000>>]>>]

TransformInputs ==
    {<<RawOf(t, Required), AbsentOut>> : t \in FilterTables \cup NameTables}
    \cup {<<RawOf(t, h), o>> : t \in SmallTables, h \in Headers,
                               o \in {AbsentOut, StaleOut}}
    \cup {<<MissingRaw, o>> : o \in {AbsentOut, StaleOut}}

FetchIdle ==
    /\ fpc = "idle"
    /\ destFile = [exists |-> FALSE, content |-> <<>>]
    /\ destFile0 = destFile
    /\ resp = [got |-> FALSE, status |-> 0, content |-> <<>>]
    /\ nGet = 0
    /\ exitWith = [kind |-> "none", status |-> 0]

RunsInit(rs) ==
    /\ runs = rs
    /\ pc = [r \in rs |-> "load"]
    /\ df = [r \in rs |-> <<>>]
    /\ df_filtered = [r \in rs |-> <<>>]
    /\ wbuf = [r \in rs |-> <<>>]
    /\ woff = [r \in rs |-> 0]
    /\ lastWriter = 0
    /\ overlapped = FALSE
    /\ fetches = 0

\* One run of the transform stage.
Init ==
    /\ \E in \in TransformInputs : rawFile = in[1] /\ outFile = in[2]
    /\ outFile0 = outFile
    /\ RunsInit({1})
    /\ FetchIdle

Next ==
    \/ \E r \in runs : Load(r)
    \/ \E r \in runs : Filter(r)
    \/ \E r \in runs : OpenOut(r)
    \/ \E r \in runs : WriteChunk(r)
    \/ \E r \in runs : CloseOut(r)

Spec == Init /\ [][Next]_vars


---------------------------------------------------------------------------
(* Two runs of the transform stage on the same paths.                      *)

ConcRows == {NameRow(sKent \o sCounty),
             [NameRow(sAda) EXCEPT !.median_sale_price = <<350000>>]}
ConcTables == UNION {[1..n -> ConcRows] : n \in 0..MaxConcRows}

\* The fetch stage runs meanwhile (fetch_data writes ../data/redfin_raw.csv):
\* the raw file holds another dataset from then on.
RawReplaced ==
    /\ fetches < MaxFetches
    /\ \E t \in ConcTables :
          /\ rawFile' = RawOf(t, Required)
          /\ rawFile' # rawFile
    /\ fetches' = fetches + 1
    /\ UNCHANGED <<runs, outFile, pc, df, df_filtered, wbuf, woff, outFile0,
                   lastWriter, overlapped>>
    /\ UNCHANGED fvars

InitConc ==
    /\ rawFile \in {RawOf(t, Required) : t \in ConcTables} \cup {MissingRaw}
    /\ outFile = AbsentOut
    /\ outFile0 = outFile
    /\ RunsInit({1, 2})
    /\ FetchIdle

NextConc == Next \/ RawReplaced

SpecConc == InitConc /\ [][NextConc]_vars

---------------------------------------------------------------------------
(* The fetch stage: fetch_data.                                            *)

Statuses == {200, 204, 404, 503}
ByteVals == {65, 66}
Bodies   == UNION {[1..n -> ByteVals] : n \in 0..MaxBody}

\* Only the 5xx statuses raise.
IsServerError(status) == 500 <= status /\ status < 600

\* r.raise_for_status() raises HTTPError for a 4xx or a 5xx status.
IsHTTPError(status) == 400 <= status /\ status < 600

\* open(filepath, "r+b"): nothing is truncated.
OpenRPlus(file) ==
    IF file.exists THEN file ELSE [exists |-> TRUE, content |-> <<>>]

\* open(filepath, "wb"): the file is created, or truncated to nothing.
OpenWB(file) == [exists |-> TRUE, content |-> <<>>]

\* r = requests.get(url, allow_redirects=True): a response of some status
\* and body, or no response at all (a ConnectionError, which fetch_data does
\* not catch).
Get ==
    /\ fpc = "get"
    /\ nGet' = nGet + 1
    /\ \/ /\ \E st \in Statuses, body \in Bodies :
                resp' = [got |-> TRUE, status |-> st, content |-> body]
          /\ fpc' = "raise_for_status"
          /\ UNCHANGED exitWith
       \/ /\ fpc' = "crashed"
          /\ exitWith' = [kind |-> "ConnectionError", status |-> 0]
          /\ UNCHANGED resp
    /\ UNCHANGED <<destFile, destFile0>>
    /\ UNCHANGED tvars

\* r.raise_for_status(); except HTTPError as err: raise SystemExit(err)
RaiseForStatus ==
    /\ fpc = "raise_for_status"
    /\ IF IsHTTPError(resp.status)
       THEN /\ fpc' = "exit"
            /\ exitWith' = [kind |-> "SystemExit", status |-> resp.status]
       ELSE /\ fpc' = "open"
            /\ UNCHANGED exitWith
    /\ UNCHANGED <<destFile, destFile0, resp, nGet>>
    /\ UNCHANGED tvars

\* with open(filepath, "wb") as f:
OpenDest ==
    /\ fpc = "open"
    /\ destFile' = OpenWB(destFile)
    /\ fpc' = "write"
    /\ UNCHANGED <<destFile0, resp, nGet, exitWith>>
    /\ UNCHANGED tvars

\* f.write(r.content), and the end of the with block.
WriteDest ==
    /\ fpc = "write"
    /\ destFile' = [exists  |-> TRUE,
                    content |-> WriteAt(destFile.content, 0, resp.content)]
    /\ fpc' = "done"
    /\ UNCHANGED <<destFile0, resp, nGet, exitWith>>
    /\ UNCHANGED tvars

InitFetch ==
    /\ fpc = "get"
    /\ destFile \in {[exists |-> FALSE, content |-> <<>>]}
                    \cup {[exists |-> TRUE, content |-> b] : b \in Bodies}
    /\ destFile0 = destFile
    /\ resp = [got |-> FALSE, status |-> 0, content |-> <<>>]
    /\ nGet = 0
    /\ exitWith = [kind |-> "none", status |-> 0]
    /\ rawFile = MissingRaw
    /\ outFile = AbsentOut
    /\ outFile0 = outFile
    /\ RunsInit({})

NextFetch == Get \/ RaiseForStatus \/ OpenDest \/ WriteDest

SpecFetch == InitFetch /\ [][NextFetch]_vars

---------------------------------------------------------------------------
(* What the claims speak of.                                               *)

\* Run r has its result: filter_data has returned.
Filtered(r) == pc[r] \in {"save", "writing", "done"}

Suffixes == <<sCounty, sParish, sCensusArea, sBorough>>

\* The places where pat occurs in s.
Occ(s, pat) ==
    {p \in 1..(Len(s) - Len(pat) + 1) : SubSeq(s, p, p + Len(pat) - 1) = pat}

Contains(s, pat) == Occ(s, pat) # {}

\* s without the characters of the given occurrences of pat.
Without(s, pat, occ) ==
    LET keep == {i \in 1..Len(s) : ~\E p \in occ : p <= i /\ i < p + Len(pat)}
        ix   == SelectSeq([i \in 1..Len(s) |-> i], LAMBDA i : i \in keep)
    IN  [k \in 1..Len(ix) |-> s[ix[k]]]

\* s without every occurrence of pat.
DeleteAll(s, pat) == Without(s, pat, Occ(s, pat))

\* s without the first occurrence of pat.
DeleteFirst(s, pat) ==
    LET occ == Occ(s, pat)
    IN  IF occ = {} THEN s
        ELSE Without(s, pat, {CHOOSE p \in occ : \A q \in occ : p <= q})

DigitVal(c) == CharOrd[c] - 48

\* The day a period_end string "YYYY-MM-DD" names, as one number that grows
\* with the calendar.
DateNum(s) ==
    (1000 * DigitVal(s[1]) + 100 * DigitVal(s[2]) + 10 * DigitVal(s[3])
        + DigitVal(s[4])) * 10000
    + (10 * DigitVal(s[6]) + DigitVal(s[7])) * 100
    + (10 * DigitVal(s[9]) + DigitVal(s[10]))

\* Row i of d carries the latest period_end of all rows of d.
IsLatest(d, i) ==
    \A j \in 1..Len(d) : DateNum(d[j].period_end) <= DateNum(d[i].period_end)

\* The rows of d the contract lets through.
QualIdx(d) ==
    {i \in 1..Len(d) : /\ d[i].region_type = "county"
                       /\ d[i].duration = "12 weeks"
                       /\ d[i].median_sale_price # NaN
                       /\ IsLatest(d, i)}

\* The source row of output row k of run r.
Src(r, k) == df[r][df_filtered[r][k].idx + 1]

\* C3: the result of filter_data is, in source order, exactly the rows that
\* are county, 12 weeks, priced and of the latest period_end, each mapped to
\* (cleaned region_name, median_sale_price): none dropped, none added, none
\* reordered.
C3_FilterExact ==
    \A r \in runs : Filtered(r) =>
        LET d == df[r]
            o == df_filtered[r]
        IN  /\ Len(o) = Cardinality(QualIdx(d))
            /\ \A k \in 1..Len(o) :
                  /\ (o[k].idx + 1) \in QualIdx(d)
                  /\ o[k].median_sale_price = Src(r, k).median_sale_price
                  /\ o[k].county = CleanName(Src(r, k).region_name)
                  /\ k > 1 => o[k - 1].idx < o[k].idx

\* A metro row ahead of a qualifying county row: only the second row is in
\* the result.
C3_Witness ==
    \E r \in runs :
        /\ Filtered(r)
        /\ Len(df[r]) = 2
        /\ df[r][1].region_type = "metro"
        /\ IsLatest(df[r], 1)
        /\ 2 \in QualIdx(df[r])
        /\ Len(df_filtered[r]) = 1
        /\ df_filtered[r][1].idx = 1

\* C4: every output row comes from a source row whose period_end is the
\* latest of ALL loaded rows, whether or not those pass the other filters.
C4_LatestPeriodOnly ==
    \A r \in runs : Filtered(r) =>
        \A k \in 1..Len(df_filtered[r]) :
            \A j \in 1..Len(df[r]) :
                DateNum(df[r][j].period_end) <= DateNum(Src(r, k).period_end)

\* Scenario A: two qualifying rows of 2021-01-01 and 2021-01-08; only the
\* latter is in the result.
C4_Witness ==
    \E r \in runs :
        /\ Filtered(r)
        /\ Len(df[r]) = 2
        /\ df[r][1].period_end = d20210101
        /\ df[r][2].period_end = d20210108
        /\ \A i \in 1..2 : IsCounty12Weeks(df[r][i]) /\ HasPrice(df[r][i])
        /\ Len(df_filtered[r]) = 1
        /\ df_filtered[r][1].idx = 1

\* C5: no output row has a missing median_sale_price; a source row without a
\* price is left out even when it passes every other filter.
C5_NoNullPrice ==
    \A r \in runs : Filtered(r) =>
        /\ \A k \in 1..Len(df_filtered[r]) :
              df_filtered[r][k].median_sale_price # NaN
        /\ \A i \in 1..Len(df[r]) :
              df[r][i].median_sale_price = NaN =>
                  \A k \in 1..Len(df_filtered[r]) : df_filtered[r][k].idx # i - 1

\* Scenario D: a county, 12 weeks row of the latest period without a price
\* is left out, the priced row beside it is kept.
C5_Witness ==
    \E r \in runs :
        /\ Filtered(r)
        /\ Len(df[r]) = 2
        /\ IsCounty12Weeks(df[r][1]) /\ IsLatest(df[r], 1)
        /\ df[r][1].median_sale_price = NaN
        /\ Len(df_filtered[r]) = 1
        /\ df_filtered[r][1].idx = 1

\* C6: no county of the result contains " County", " Parish", " Census Area"
\* or " Borough".
C6_NoSuffixLeft ==
    \A r \in runs : Filtered(r) =>
        \A k \in 1..Len(df_filtered[r]) :
            \A n \in 1..Len(Suffixes) :
                ~Contains(df_filtered[r][k].county, Suffixes[n])

\* C7, as claimed: for each of the four substrings in order, only its first
\* occurrence is removed from region_name.
C7_FirstOccurrenceOnly ==
    \A r \in runs : Filtered(r) =>
        \A k \in 1..Len(df_filtered[r]) :
            df_filtered[r][k].county =
                DeleteFirst(DeleteFirst(DeleteFirst(DeleteFirst(
                    Src(r, k).region_name,
                    sCounty), sParish), sCensusArea), sBorough)

\* C7, amended: for each of the four substrings in order, every occurrence
\* is removed from region_name, case-sensitively and anywhere in the string;
\* "Los Angeles County" with price 800000 yields ("Los Angeles", 800000).
C7_EveryOccurrence ==
    \A r \in runs : Filtered(r) =>
        \A k \in 1..Len(df_filtered[r]) :
            /\ df_filtered[r][k].county =
                  DeleteAll(DeleteAll(DeleteAll(DeleteAll(
                      Src(r, k).region_name,
                      sCounty), sParish), sCensusArea), sBorough)
            /\ Src(r, k).region_name = sLosAngeles \o sCounty =>
                  /\ df_filtered[r][k].county = sLosAngeles
                  /\ df_filtered[r][k].median_sale_price = <<800000>>

\* A region_name holding " County" twice went through the cleaning.
C7_Witness ==
    \E r \in runs :
        /\ Filtered(r)
        /\ Len(df_filtered[r]) = 1
        /\ Cardinality(Occ(Src(r, 1).region_name, sCounty)) >= 2
        /\ ~Contains(df_filtered[r][1].county, sCounty)

\* Every row of d already meets the post-conditions of filter_data.
Conforming(d) ==
    /\ \A i \in 1..Len(d) :
          /\ d[i].region_type = "county"
          /\ d[i].duration = "12 weeks"
          /\ d[i].median_sale_price # NaN
          /\ d[i].period_end = d[1].period_end
          /\ \A n \in 1..Len(Suffixes) : ~Contains(d[i].region_name, Suffixes[n])

\* C8: on a table whose rows all meet the post-conditions already,
\* filter_data returns the table's (region_name, median_sale_price) pairs
\* unchanged and in order; cleaning a clean name changes nothing.
C8_IdempotentOnConforming ==
    \A r \in runs : (Filtered(r) /\ Conforming(df[r])) =>
        /\ Len(df_filtered[r]) = Len(df[r])
        /\ \A k \in 1..Len(df[r]) :
              /\ df_filtered[r][k].idx = k - 1
              /\ df_filtered[r][k].county = df[r][k].region_name
              /\ df_filtered[r][k].median_sale_price = df[r][k].median_sale_price

\* A conforming table whose name holds a pattern in lower case was filtered.
C8_Witness ==
    \E r \in runs :
        /\ Filtered(r)
        /\ Conforming(df[r])
        /\ Len(df[r]) = 1
        /\ Contains(df[r][1].region_name, sLcCounty)
        /\ Len(df_filtered[r]) = 1

\* The raw file cannot be loaded: it is missing, or lacks a required column.
Unloadable(file) == ~file.exists \/ \E c \in Required : c \notin file.header

\* C9: a load failure ends the run at the load step; the output file is as
\* it was (not created, not modified) and nothing was produced.  An empty
\* result is no failure: the run completes and the output file holds the
\* header only.
C9_LoadFailureNoWrite ==
    \A r \in runs :
        /\ (Unloadable(rawFile) /\ pc[r] # "load") =>
              /\ pc[r] = "aborted"
              /\ outFile = outFile0
              /\ df_filtered[r] = <<>> /\ wbuf[r] = <<>>
        /\ pc[r] = "aborted" => Unloadable(rawFile)
        /\ (pc[r] = "done" /\ df_filtered[r] = <<>>) =>
              outFile = [exists |-> TRUE, lines |-> <<HeaderLine>>]

\* A raw file without one of the columns, and an output file of an earlier
\* run: the run has aborted.
C9_Witness ==
    \E r \in runs :
        /\ pc[r] = "aborted"
        /\ rawFile.exists
        /\ Len(rawFile.rows) = 1
        /\ "duration" \notin rawFile.header
        /\ outFile0 = StaleOut


\* C1: after a response with an error status fetch_data ends with SystemExit
\* carrying that HTTP error, and the destination is as it was before the
\* run: the same content, or still absent.
C1_HttpErrorNoWrite ==
    /\ (resp.got /\ resp.status \in 400..599) =>
          /\ destFile = destFile0
          /\ fpc \in {"raise_for_status", "exit"}
          /\ fpc = "exit" =>
                exitWith = [kind |-> "SystemExit", status |-> resp.status]
    /\ fpc = "exit" => (resp.got /\ resp.status \in 400..599)

\* A 404 on a destination that held data: the run has exited, the data is
\* still there.
C1_Witness ==
    /\ fpc = "exit"
    /\ resp.status = 404
    /\ resp.content # <<>>
    /\ destFile0.exists /\ destFile0.content # <<>>
    /\ destFile = destFile0

\* C2: after a response without an error status the run ends with the
\* destination holding exactly the response body, whatever it held before,
\* and one GET was issued, never a second one.
C2_BodyReplacesFile ==
    /\ nGet <= 1
    /\ fpc = "done" =>
          /\ resp.got /\ resp.status \notin 400..599
          /\ destFile = [exists |-> TRUE, content |-> resp.content]
          /\ nGet = 1
    /\ (resp.got /\ resp.status \notin 400..599) =>
          fpc \in {"raise_for_status", "open", "write", "done"}

\* A body shorter than, and different from, what the destination held.
C2_Witness ==
    /\ fpc = "done"
    /\ destFile0.exists
    /\ Len(destFile0.content) > Len(resp.content)
    /\ resp.content # <<>>
    /\ resp.content # SubSeq(destFile0.content, 1, Len(resp.content))
    /\ destFile.content = resp.content

BothDone == Cardinality(runs) = 2 /\ \A r \in runs : pc[r] = "done"

\* C10, as claimed: in every interleaving of two runs, once both have
\* finished the output file holds the complete result of the run that wrote
\* last.
C10_LastWriterWins ==
    BothDone => outFile.lines = wbuf[lastWriter]

\* C10, amended: when no run opened the output file while the other had it
\* open, the output file holds, once both have finished, the complete result
\* of the run that wrote last.
C10_SequentialLastWriterWins ==
    (BothDone /\ ~overlapped) =>
        /\ lastWriter \in runs
        /\ outFile = [exists |-> TRUE, lines |-> wbuf[lastWriter]]
        /\ wbuf[lastWriter] = ToCsv(filter_data(df[lastWriter]))

\* Two runs one after the other, the second with the shorter result.
C10_Witness ==
    /\ BothDone
    /\ ~overlapped
    /\ \E q \in runs \ {lastWriter} : Len(wbuf[q]) > Len(wbuf[lastWriter])
    /\ outFile.lines = wbuf[lastWriter]

===========================================================================
